---- MODULE Spec2Model ----
(***************************************************************************)
(* Progress metrics of the personal security checklist                     *)
(* (web/src/components/psc/progress.tsx).                                  *)
(*                                                                         *)
(* Strings the code transforms (item points, priorities) are sequences of  *)
(* one-character strings, so that toLowerCase / replace / charAt are       *)
(* computed character by character.  Titles are never transformed and are  *)
(* plain strings.                                                          *)
(***************************************************************************)
EXTENDS Integers, Sequences, FiniteSets, TLC

VARIABLES
  persisted,        \* what the catalog provider and localStorage hold
  checklists,       \* useContext(ChecklistContext).value
  checkedItems,     \* useLocalStorage('PSC_PROGRESS', {}) signal value
  ignoredItems,     \* useLocalStorage('PSC_IGNORED', {}) signal value
  loaded,           \* which of the three inputs have been loaded
  windowLoad,       \* the window 'load' event has fired
  readLog,          \* history: value of `loaded` at every read by the pipeline
  summary,          \* the first load handler: "idle" or "done"
  totalProgress,    \* useSignal({ completed: 0, outOf: 0 })
  filteredSections, \* per priority: result of filterByPriority
  tierProgress,     \* per priority: result of calculateProgress
  percent,          \* per priority: percentage handed to drawProgress
  radar,            \* makeRadarData call: "idle", "running", "drawn"
  radarSections,    \* the `sections` argument of makeRadarData
  labels,           \* labels computed by makeRadarData
  task,             \* per priority, per section: calculatePercentage promise
  data,             \* per priority: values collected by Promise.all, by index
  chart             \* <<>> or <<data>>: what new Chart(...) was given

vars == <<persisted, checklists, checkedItems, ignoredItems, loaded, windowLoad,
          readLog, summary, totalProgress, filteredSections,
          tierProgress, percent, radar, radarSections, labels, task, data, chart>>

summaryVars == <<summary, totalProgress, filteredSections, tierProgress, percent>>

radarVars == <<radar, radarSections, labels, task, data, chart>>

inputVars == <<persisted, checklists, checkedItems, ignoredItems, loaded, windowLoad>>

----------------------------------------------------------------------------
(* Bounds of the model *)

\* most items in a catalog of SpecSummary
MaxItems == 3

\* most sections in a catalog of SpecSummary
MaxSections == 2

\* most sections in a catalog of SpecRadar
MaxRadarSections == 2

\* most sections in a catalog of Spec
MaxPageSections == 1

----------------------------------------------------------------------------
(* String operations *)

UpperToLower ==
  [A |-> "a", B |-> "b", C |-> "c", D |-> "d", E |-> "e", F |-> "f", G |-> "g",
   H |-> "h", I |-> "i", J |-> "j", K |-> "k", L |-> "l", M |-> "m", N |-> "n",
   O |-> "o", P |-> "p", Q |-> "q", R |-> "r", S |-> "s", T |-> "t", U |-> "u",
   V |-> "v", W |-> "w", X |-> "x", Y |-> "y", Z |-> "z"]

LowerToUpper ==
  [a |-> "A", b |-> "B", c |-> "C", d |-> "D", e |-> "E", f |-> "F", g |-> "G",
   h |-> "H", i |-> "I", j |-> "J", k |-> "K", l |-> "L", m |-> "M", n |-> "N",
   o |-> "O", p |-> "P", q |-> "Q", r |-> "R", s |-> "S", t |-> "T", u |-> "U",
   v |-> "V", w |-> "W", x |-> "X", y |-> "Y", z |-> "Z"]

\* String.prototype.toLowerCase
toLowerCase(s) ==
  [i \in 1..Len(s) |-> IF s[i] \in DOMAIN UpperToLower THEN UpperToLower[s[i]] ELSE s[i]]

\* String.prototype.toUpperCase
toUpperCase(s) ==
  [i \in 1..Len(s) |-> IF s[i] \in DOMAIN LowerToUpper THEN LowerToUpper[s[i]] ELSE s[i]]

\* s.replace(/ /g, '-')
replaceSpaces(s) ==
  [i \in 1..Len(s) |-> IF s[i] = " " THEN "-" ELSE s[i]]

\* x.toLowerCase().replace(/ /g, '-')
normalize(s) == replaceSpaces(toLowerCase(s))

\* priority.charAt(0).toUpperCase() + priority.slice(1)
capitalize(s) ==
  IF Len(s) = 0 THEN s ELSE toUpperCase(<<s[1]>>) \o Tail(s)

----------------------------------------------------------------------------
(* The Priority type and the data the model draws its inputs from *)

recommended == <<"r","e","c","o","m","m","e","n","d","e","d">>

optional == <<"o","p","t","i","o","n","a","l">>

advanced == <<"a","d","v","a","n","c","e","d">>

Priorities == {recommended, optional, advanced}

\* priority strings as the catalog spells them; Essential is none of the tiers
Recommended == <<"R","e","c","o","m","m","e","n","d","e","d">>

Advanced == <<"A","d","v","a","n","c","e","d">>

Essential == <<"E","s","s","e","n","t","i","a","l">>

\* the labels of the three radar series
OptionalLabel == <<"O","p","t","i","o","n","a","l">>

UseMFA == <<"U","s","e"," ","M","F","A">>

UseMfaHyphen == <<"u","s","e","-","m","f","a">>

RotateKeys == <<"R","o","t","a","t","e"," ","K","e","y","s">>

Item(point, priority) == [point |-> point, priority |-> priority]

Items ==
  { Item(UseMFA, Recommended), Item(UseMfaHyphen, optional),
    Item(RotateKeys, Advanced), Item(RotateKeys, Essential) }

Titles == <<"Auth", "Web", "Misc">>

\* the title of the i-th section of a drawn catalog
TitleAt(i) == Titles[((i - 1) % Len(Titles)) + 1]

Ids == {normalize(UseMFA), normalize(RotateKeys)}

Stores == [Ids -> BOOLEAN]

\* the initial state {} of both stores: no key is set
EmptyStore == [id \in Ids |-> FALSE]

StoreOf(S) == [id \in Ids |-> id \in S]

Section(title, checklist) == [title |-> title, checklist |-> checklist]

\* the items of a catalog, in order, and the lengths of its checklists
FlatChecklists == UNION {[1..n -> Items] : n \in 0..MaxItems}

ChecklistLengths == UNION {[1..k -> 0..MaxItems] : k \in 0..MaxSections}

RECURSIVE SumTo(_, _)
SumTo(lengths, i) == IF i = 0 THEN 0 ELSE lengths[i] + SumTo(lengths, i - 1)

Cut(flat, lengths) ==
  [i \in 1..Len(lengths) |->
     Section(TitleAt(i), SubSeq(flat, SumTo(lengths, i - 1) + 1, SumTo(lengths, i)))]

\* every catalog of at most MaxSections sections and MaxItems items over Items
Catalogs ==
  { Cut(x[1], x[2]) :
      x \in {y \in FlatChecklists \X ChecklistLengths : SumTo(y[2], Len(y[2])) = Len(y[1])} }

\* the sections the radar and page specifications build their catalogs from
SectionPool ==
  { Section("Auth", <<Item(UseMFA, Recommended), Item(RotateKeys, Recommended)>>),
    Section("Web", <<Item(UseMfaHyphen, optional), Item(RotateKeys, Essential)>>),
    Section("Misc", <<Item(RotateKeys, Advanced)>>) }

\* the catalogs of at most n sections of SectionPool, no section twice
PoolCatalogs(n) ==
  { c \in UNION {[1..k -> SectionPool] : k \in 0..n} :
      \A i, j \in DOMAIN c : c[i] = c[j] => i = j }

\* <<completed, ignored>> pairs of the radar and page specifications
StorePool ==
  { <<StoreOf({normalize(UseMFA)}), EmptyStore>>,
    <<StoreOf(Ids), StoreOf({normalize(RotateKeys)})>> }

Inputs == {"catalog", "PSC_PROGRESS", "PSC_IGNORED"}

----------------------------------------------------------------------------
(* JavaScript numbers the code computes *)

Number(n) == [kind |-> "number", value |-> n]

NaN == [kind |-> "NaN", value |-> 0]

Infinity == [kind |-> "Infinity", value |-> 0]

\* Math.round((completed / outOf) * 100): 0/0 is NaN, n/0 is Infinity for n > 0,
\* otherwise the quotient rounded half up (outOf is never negative: every item
\* the reduce counted is decremented at most once)
roundPercent(completed, outOf) ==
  IF outOf = 0
    THEN (IF completed = 0 THEN NaN ELSE Infinity)
    ELSE Number((200 * completed + outOf) \div (2 * outOf))

\* The unrounded radar value, an exact fraction num/den
Ratio(num, den) == [num |-> num, den |-> den]

\* progress.outOf > 0 ? (progress.completed / progress.outOf) * 100 : 0
guardedPercent(progress) ==
  IF progress.outOf > 0
    THEN Ratio(progress.completed * 100, progress.outOf)
    ELSE Ratio(0, 1)

----------------------------------------------------------------------------
(* calculateProgress *)

ProgressResult(completed, outOf) == [completed |-> completed, outOf |-> outOf]

\* sections.reduce((total, section) => total + section.checklist.length, 0)
RECURSIVE countItems(_)
countItems(sections) ==
  IF Len(sections) = 0 THEN 0
  ELSE Len(sections[1].checklist) + countItems(Tail(sections))

\* faulty variant: the ignore check is skipped for a completed item (else-if)
countItemElseIf(acc, item, checked, ignored) ==
  LET id == normalize(item.point) IN
  IF checked[id] THEN ProgressResult(acc.completed + 1, acc.outOf)
  ELSE IF ignored[id] THEN ProgressResult(acc.completed, acc.outOf - 1)
  ELSE acc

\* faulty variant: the ignore store is looked up by the raw point, not by the id
countItemRawIgnore(acc, item, checked, ignored) ==
  LET id == normalize(item.point) IN
  ProgressResult(acc.completed + (IF checked[id] THEN 1 ELSE 0),
                 acc.outOf - (IF item.point \in Ids /\ ignored[item.point] THEN 1 ELSE 0))

\* body of the inner forEach: acc is (totalComplete, totalItems)
countItem(acc, item, checked, ignored) ==
  LET id == normalize(item.point)
      isComplete == checked[id]
      isIgnored == ignored[id]
  IN ProgressResult(acc.completed + (IF isComplete THEN 1 ELSE 0),
                    acc.outOf - (IF isIgnored THEN 1 ELSE 0))

\* section.checklist.forEach(...)
RECURSIVE forEachItem(_, _, _, _)
forEachItem(checklist, acc, checked, ignored) ==
  IF Len(checklist) = 0 THEN acc
  ELSE forEachItem(Tail(checklist), countItem(acc, checklist[1], checked, ignored),
                   checked, ignored)

\* sections.forEach(...)
RECURSIVE forEachSection(_, _, _, _)
forEachSection(sections, acc, checked, ignored) ==
  IF Len(sections) = 0 THEN acc
  ELSE forEachSection(Tail(sections),
                      forEachItem(sections[1].checklist, acc, checked, ignored),
                      checked, ignored)

\* The stores are objects from their initial state {} on, so !checkedItems.value
\* is false and the early return is taken for an empty list of sections only.
calculateProgress(sections, checked, ignored) ==
  IF Len(sections) = 0 THEN ProgressResult(0, 0)
  ELSE forEachSection(sections, ProgressResult(0, countItems(sections)), checked, ignored)

----------------------------------------------------------------------------
(* filterByPriority *)

\* faulty variant: the priorities are compared as written, without normalizing
matchesPriorityRaw(item, priority) == item.priority = priority

\* faulty variant: the display name Essential is taken for the recommended tier
matchesPriorityAlias(item, priority) ==
  \/ normalize(item.priority) = normalize(priority)
  \/ normalize(item.priority) = normalize(Essential) /\ priority = recommended

\* normalize(item.priority) === normalize(priority)
matchesPriority(item, priority) ==
  normalize(item.priority) = normalize(priority)

filterByPriority(sections, priority) ==
  [i \in 1..Len(sections) |->
     LET Test(item) == matchesPriority(item, priority) IN
     [sections[i] EXCEPT !.checklist = SelectSeq(sections[i].checklist, Test)]]

----------------------------------------------------------------------------
(* makeRadarData *)

\* the order of the three buildDataForPriority calls
RadarPriorities == <<advanced, optional, recommended>>

\* the helper calculatePercentage of makeRadarData
calculatePercentage(section, priority, checked, ignored) ==
  LET filtered == filterByPriority(<<section>>, priority)
      progress == calculateProgress(filtered, checked, ignored)
  IN guardedPercent(progress)

\* faulty variant: settles as soon as one input has (Promise.race)
PromiseRace(inputs) ==
  IF \E i \in DOMAIN inputs : inputs[i] = "rejected" THEN "rejected"
  ELSE IF inputs = <<>> \/ \E i \in DOMAIN inputs : inputs[i] = "fulfilled" THEN "fulfilled"
  ELSE "pending"

\* Promise.all over promises in the given states: rejected as soon as one is,
\* fulfilled once all are
PromiseAll(inputs) ==
  IF \E i \in DOMAIN inputs : inputs[i] = "rejected" THEN "rejected"
  ELSE IF \A i \in DOMAIN inputs : inputs[i] = "fulfilled" THEN "fulfilled"
  ELSE "pending"

\* faulty variant: a result is stored at the next free position, in completion order
storeAtNext(values, i, v) == ((Cardinality(DOMAIN values) + 1) :> v) @@ values

\* Promise.all stores the result of its i-th input at index i
storeAt(values, i, v) == (i :> v) @@ values

\* the promise buildDataForPriority(priority, color) returns
tierPromise(p) == PromiseAll(task[p])

\* the promise makeRadarData returns
radarPromise == PromiseAll([k \in 1..Len(RadarPriorities) |-> tierPromise(RadarPriorities[k])])

\* what a fulfilled buildDataForPriority resolves to
dataset(p) == [label |-> capitalize(p), data |-> data[p]]

RadarChartData ==
  [labels |-> labels,
   datasets |-> [k \in 1..Len(RadarPriorities) |-> dataset(RadarPriorities[k])]]

----------------------------------------------------------------------------
(* Initial states *)

Unstarted ==
  /\ readLog = {}
  /\ summary = "idle"
  /\ totalProgress = ProgressResult(0, 0)
  /\ filteredSections = [p \in Priorities |-> <<>>]
  /\ tierProgress = [p \in Priorities |-> ProgressResult(0, 0)]
  /\ percent = [p \in Priorities |-> Number(0)]
  /\ radar = "idle"
  /\ radarSections = <<>>
  /\ labels = <<>>
  /\ task = [p \in Priorities |-> <<>>]
  /\ data = [p \in Priorities |-> <<>>]
  /\ chart = <<>>

\* the component as constructed: nothing is loaded, the stores hold their
\* initial state {} and the load event has not fired
Init ==
  /\ \E c \in PoolCatalogs(MaxPageSections), st \in StorePool :
       persisted = [catalog |-> c, PSC_PROGRESS |-> st[1], PSC_IGNORED |-> st[2]]
  /\ checklists = <<>>
  /\ checkedItems = EmptyStore
  /\ ignoredItems = EmptyStore
  /\ loaded = {}
  /\ windowLoad = FALSE
  /\ Unstarted

\* the component at the load event, everything loaded
AtLoad ==
  /\ checklists = persisted.catalog
  /\ checkedItems = persisted.PSC_PROGRESS
  /\ ignoredItems = persisted.PSC_IGNORED
  /\ loaded = Inputs
  /\ windowLoad = TRUE
  /\ Unstarted

InitSummary ==
  /\ \E c \in Catalogs, ch \in Stores, ig \in Stores :
       persisted = [catalog |-> c, PSC_PROGRESS |-> ch, PSC_IGNORED |-> ig]
  /\ AtLoad

InitRadar ==
  /\ \E c \in PoolCatalogs(MaxRadarSections), st \in StorePool :
       persisted = [catalog |-> c, PSC_PROGRESS |-> st[1], PSC_IGNORED |-> st[2]]
  /\ AtLoad

----------------------------------------------------------------------------
(* Loading of the inputs and the load event *)

\* the catalog provider fills the checklist context
LoadCatalog ==
  /\ "catalog" \notin loaded
  /\ checklists' = persisted.catalog
  /\ loaded' = loaded \cup {"catalog"}
  /\ UNCHANGED <<persisted, checkedItems, ignoredItems, windowLoad, readLog>>
  /\ UNCHANGED <<summaryVars, radarVars>>

\* the completion store is read from localStorage
LoadProgress ==
  /\ "PSC_PROGRESS" \notin loaded
  /\ checkedItems' = persisted.PSC_PROGRESS
  /\ loaded' = loaded \cup {"PSC_PROGRESS"}
  /\ UNCHANGED <<persisted, checklists, ignoredItems, windowLoad, readLog>>
  /\ UNCHANGED <<summaryVars, radarVars>>

\* the ignore store is read from localStorage
LoadIgnored ==
  /\ "PSC_IGNORED" \notin loaded
  /\ ignoredItems' = persisted.PSC_IGNORED
  /\ loaded' = loaded \cup {"PSC_IGNORED"}
  /\ UNCHANGED <<persisted, checklists, checkedItems, windowLoad, readLog>>
  /\ UNCHANGED <<summaryVars, radarVars>>

\* the "data ready" signal: the catalog and both stores are loaded
DataReady == loaded = Inputs

WindowLoad ==
  /\ ~windowLoad
  /\ DataReady
  /\ windowLoad' = TRUE
  /\ UNCHANGED <<persisted, checklists, checkedItems, ignoredItems, loaded, readLog>>
  /\ UNCHANGED <<summaryVars, radarVars>>

\* faulty variant: the handlers run when the component renders, before any event
OnRender == TRUE

\* useOnWindow('load', ...): the handler runs once the load event has fired
OnWindowLoad == windowLoad

----------------------------------------------------------------------------
(* The first load handler: headline totals and the three gauges *)

\* makeDataAndDrawChart(priority, color): filter, count, round, draw
makeDataAndDrawChart(priority) ==
  LET sections == filterByPriority(checklists, priority)
      progress == calculateProgress(sections, checkedItems, ignoredItems)
  IN [sections |-> sections,
      progress |-> progress,
      percent |-> roundPercent(progress.completed, progress.outOf)]

\* the handler: the totals are stored in totalProgress and a gauge is drawn for
\* each of recommended, optional and advanced
SummaryLoad ==
  /\ OnWindowLoad
  /\ summary = "idle"
  /\ totalProgress' = calculateProgress(checklists, checkedItems, ignoredItems)
  /\ filteredSections' = [p \in Priorities |-> makeDataAndDrawChart(p).sections]
  /\ tierProgress' = [p \in Priorities |-> makeDataAndDrawChart(p).progress]
  /\ percent' = [p \in Priorities |-> makeDataAndDrawChart(p).percent]
  /\ summary' = "done"
  /\ readLog' = readLog \cup {loaded}
  /\ UNCHANGED <<inputVars, radarVars>>

----------------------------------------------------------------------------
(* The second load handler: the radar chart *)

\* makeRadarData(checklists.value): the labels are computed and one
\* calculatePercentage promise per priority and section is started
MakeRadarData ==
  /\ OnWindowLoad
  /\ radar = "idle"
  /\ radar' = "running"
  /\ radarSections' = checklists
  /\ labels' = [i \in 1..Len(checklists) |-> checklists[i].title]
  /\ task' = [p \in Priorities |-> [i \in 1..Len(checklists) |-> "pending"]]
  /\ data' = [p \in Priorities |-> <<>>]
  /\ readLog' = readLog \cup {loaded}
  /\ UNCHANGED chart
  /\ UNCHANGED <<inputVars, summaryVars>>

\* calculatePercentage(section, priority) runs to its return
CalculatePercentage(priority, i) ==
  /\ radar = "running"
  /\ i \in DOMAIN task[priority]
  /\ task[priority][i] = "pending"
  /\ LET v == calculatePercentage(radarSections[i], priority, checkedItems, ignoredItems)
     IN data' = [data EXCEPT ![priority] = storeAt(data[priority], i, v)]
  /\ task' = [task EXCEPT ![priority][i] = "fulfilled"]
  /\ readLog' = readLog \cup {loaded}
  /\ UNCHANGED <<radar, radarSections, labels, chart>>
  /\ UNCHANGED <<inputVars, summaryVars>>

\* one of the awaited calls of calculatePercentage rejects
CalculatePercentageFails(priority, i) ==
  /\ radar = "running"
  /\ i \in DOMAIN task[priority]
  /\ task[priority][i] = "pending"
  /\ task' = [task EXCEPT ![priority][i] = "rejected"]
  /\ UNCHANGED <<radar, radarSections, labels, data, chart, readLog>>
  /\ UNCHANGED <<inputVars, summaryVars>>

\* makeRadarData(...).then(data => new Chart(radarChart.value, { data, ... }));
\* the canvas ref is bound by the markup the component returns
DrawRadarChart ==
  /\ radar = "running"
  /\ radarPromise = "fulfilled"
  /\ chart' = <<RadarChartData>>
  /\ radar' = "drawn"
  /\ UNCHANGED <<radarSections, labels, task, data, readLog>>
  /\ UNCHANGED <<inputVars, summaryVars>>

----------------------------------------------------------------------------
(* Specifications *)

RadarHandler ==
  \/ MakeRadarData
  \/ \E p \in Priorities : \E i \in 1..Len(radarSections) : CalculatePercentage(p, i)
  \/ \E p \in Priorities : \E i \in 1..Len(radarSections) : CalculatePercentageFails(p, i)
  \/ DrawRadarChart

Next ==
  \/ LoadCatalog
  \/ LoadProgress
  \/ LoadIgnored
  \/ WindowLoad
  \/ SummaryLoad
  \/ RadarHandler

\* the page: both load handlers, from construction
Spec == Init /\ [][Next]_vars

\* the first load handler over catalogs and stores drawn from Catalogs and Stores
SpecSummary == InitSummary /\ [][SummaryLoad]_vars

\* the second load handler over catalogs built from SectionPool
SpecRadar == InitRadar /\ [][RadarHandler]_vars

----------------------------------------------------------------------------
(* Counting by positions, used to state the properties *)

\* the positions <<section, item>> of the items of a list of sections
ItemPositions(sections) ==
  UNION { {<<i, k>> : k \in 1..Len(sections[i].checklist)} : i \in 1..Len(sections) }

ItemAt(sections, pos) == sections[pos[1]].checklist[pos[2]]

IdAt(sections, pos) == normalize(ItemAt(sections, pos).point)

\* the positions whose normalized id is true in a store
Marked(sections, store) ==
  {pos \in ItemPositions(sections) : store[IdAt(sections, pos)]}

CountedProgress(sections) ==
  ProgressResult(Cardinality(Marked(sections, checkedItems)),
                 Cardinality(ItemPositions(sections))
                   - Cardinality(Marked(sections, ignoredItems)))

\* the positions of a list of sections whose priority normalizes to a tier
TierPositions(sections, tier) ==
  {pos \in ItemPositions(sections) : normalize(ItemAt(sections, pos).priority) = tier}

TierCompleted(sections, tier) ==
  Cardinality(TierPositions(sections, tier) \cap Marked(sections, checkedItems))

TierOutOf(sections, tier) ==
  Cardinality(TierPositions(sections, tier))
    - Cardinality(TierPositions(sections, tier) \cap Marked(sections, ignoredItems))

\* completed/outOf*100 of one section filtered to a tier, 0 when outOf is 0
ExpectedValue(section, tier) ==
  IF TierOutOf(<<section>>, tier) > 0
    THEN Ratio(100 * TierCompleted(<<section>>, tier), TierOutOf(<<section>>, tier))
    ELSE Ratio(0, 1)

\* equality of two fractions
RatEq(a, b) == a.num * b.den = b.num * a.den

\* the j-th smallest element of a set of positions
NthOf(K, j) == CHOOSE k \in K : Cardinality({m \in K : m <= k}) = j

Unrecognized(item) == normalize(item.priority) \notin Priorities

UnrecognizedPositions(sections) ==
  {pos \in ItemPositions(sections) : Unrecognized(ItemAt(sections, pos))}

\* some id is the id of two items with different points
HasCollision(sections) ==
  \E a, b \in ItemPositions(sections) :
    /\ IdAt(sections, a) = IdAt(sections, b)
    /\ ItemAt(sections, a).point # ItemAt(sections, b).point

----------------------------------------------------------------------------
(* C1 *)

\* C1: calculateProgress returns completed = the number of items whose
\* normalized id is true in the completion store and outOf = the number of
\* items minus the number of items whose normalized id is true in the ignore
\* store, each item checked against both stores independently; for the full
\* catalog and for each catalog filtered to a tier.
C1_ProgressCounts ==
  summary = "done" =>
    /\ totalProgress = CountedProgress(checklists)
    /\ \A p \in Priorities : tierProgress[p] = CountedProgress(filteredSections[p])

\* an item that is both completed and ignored has been counted, beside others
C1_Witness ==
  /\ summary = "done"
  /\ Marked(checklists, checkedItems) \cap Marked(checklists, ignoredItems) # {}
  /\ Cardinality(ItemPositions(checklists)) = 3
  /\ Len(checklists) = 2
  /\ totalProgress.completed = 2
  /\ totalProgress.outOf = 1

----------------------------------------------------------------------------
(* C2 *)

\* C2: every ProgressResult calculateProgress returns satisfies
\* 0 <= completed <= outOf.
C2_CompletedWithinOutOf ==
  summary = "done" =>
    /\ 0 <= totalProgress.completed
    /\ totalProgress.completed <= totalProgress.outOf
    /\ \A p \in Priorities :
         /\ 0 <= tierProgress[p].completed
         /\ tierProgress[p].completed <= tierProgress[p].outOf

----------------------------------------------------------------------------
(* C3 *)

\* C3: every percentage derived from a ProgressResult with outOf = 0 is 0: the
\* gauge percentage of each tier and every radar value.
C3_ZeroOutOfGivesZeroPercent ==
  /\ summary = "done" =>
       \A p \in Priorities : tierProgress[p].outOf = 0 => percent[p] = Number(0)
  /\ \A p \in Priorities : \A i \in DOMAIN data[p] :
       TierOutOf(<<radarSections[i]>>, p) = 0 => RatEq(data[p][i], Ratio(0, 1))

----------------------------------------------------------------------------
(* C5 *)

\* the positions of a checklist whose priority matches a tier
MatchingPositions(checklist, tier) ==
  {k \in 1..Len(checklist) : normalize(checklist[k].priority) = normalize(tier)}

\* C5: filterByPriority returns as many sections, in the same order and with
\* the same titles; each returned checklist holds exactly the items of the
\* original whose normalized priority equals the normalized tier, in their
\* original order, and is no longer than the original; a section whose
\* filtered checklist is empty is still present.
C5_FilterKeepsSectionsAndMatchingItems ==
  summary = "done" =>
    \A p \in Priorities :
      /\ Len(filteredSections[p]) = Len(checklists)
      /\ \A i \in 1..Len(checklists) :
           LET old == checklists[i].checklist
               new == filteredSections[p][i].checklist
               K == MatchingPositions(old, p)
           IN /\ filteredSections[p][i].title = checklists[i].title
              /\ Len(new) = Cardinality(K)
              /\ Len(new) <= Len(old)
              /\ \A j \in 1..Len(new) : new[j] = old[NthOf(K, j)]

\* a checklist of three items is filtered to its first and third for one tier
\* and to none for another, and the section is there in both results
C5_Witness ==
  /\ summary = "done"
  /\ \E i \in 1..Len(checklists) : \E p, q \in Priorities :
       /\ Len(checklists[i].checklist) = 3
       /\ Len(filteredSections[p][i].checklist) = 2
       /\ ~matchesPriority(checklists[i].checklist[2], p)
       /\ filteredSections[q][i].checklist = <<>>

----------------------------------------------------------------------------
(* C9 *)

IgnoredIds == {id \in Ids : ignoredItems[id]}

\* exactly one id is marked ignored, it is the id of an item of the catalog and
\* it is not marked completed
OneIgnored ==
  /\ Cardinality(IgnoredIds) = 1
  /\ \E pos \in ItemPositions(checklists) : IdAt(checklists, pos) \in IgnoredIds
  /\ \A id \in IgnoredIds : ~checkedItems[id]

\* the result for the same sections with nothing ignored
Unignored == calculateProgress(checklists, checkedItems, EmptyStore)

\* C9 as claimed: with exactly one item marked ignored and not completed, outOf
\* is exactly 1 less than with nothing ignored and completed is the same, in
\* every catalog.
C9_OneIgnoredDropsOutOfByOne ==
  (summary = "done" /\ OneIgnored) =>
    /\ totalProgress.outOf = Unignored.outOf - 1
    /\ totalProgress.completed = Unignored.completed

\* C9 as amended: the same, provided the ignored id is the normalized id of
\* exactly one item of the sections.
C9_OneIgnoredUniqueIdDropsOutOfByOne ==
  (/\ summary = "done"
   /\ OneIgnored
   /\ Cardinality(Marked(checklists, ignoredItems)) = 1) =>
    /\ totalProgress.outOf = Unignored.outOf - 1
    /\ totalProgress.completed = Unignored.completed

\* one item is ignored in a catalog in which two other points share an id
C9_Witness ==
  /\ summary = "done"
  /\ OneIgnored
  /\ Cardinality(Marked(checklists, ignoredItems)) = 1
  /\ HasCollision(checklists)
  /\ totalProgress.completed = 2
  /\ totalProgress.outOf = 2

----------------------------------------------------------------------------
(* C4, C6, C7: the radar dataset *)

AllTasks == {<<p, i>> : p \in Priorities, i \in 1..Len(radarSections)}

AllFulfilled == \A t \in AllTasks : task[t[1]][t[2]] = "fulfilled"

SomeRejected == \E t \in AllTasks : task[t[1]][t[2]] = "rejected"

\* the three series, by tier and by label, in the order of the dataset
SeriesTiers == <<advanced, optional, recommended>>

SeriesLabels == <<Advanced, OptionalLabel, Recommended>>

\* the values of a dataset are those of the sections, index for index
ValuesAligned(d) ==
  /\ Len(d.labels) = Len(radarSections)
  /\ \A i \in 1..Len(radarSections) : d.labels[i] = radarSections[i].title
  /\ Len(d.datasets) = 3
  /\ \A k \in 1..3 :
       /\ d.datasets[k].label = SeriesLabels[k]
       /\ DOMAIN d.datasets[k].data = 1..Len(radarSections)
       /\ \A i \in 1..Len(radarSections) :
            RatEq(d.datasets[k].data[i], ExpectedValue(radarSections[i], SeriesTiers[k]))

\* C4: makeRadarData returns the section titles in catalog order as labels and
\* exactly three series in the order advanced, optional, recommended, each
\* with one value per section, the value at index i being the percentage of
\* section i alone filtered to the tier (0 when outOf is 0).
C4_RadarLabelsAndSeriesAligned ==
  radar = "drawn" => (radarSections = checklists /\ ValuesAligned(chart[1]))

\* a dataset of two sections whose values differ within a series
C4_Witness ==
  /\ radar = "drawn"
  /\ Len(chart[1].labels) = 2
  /\ chart[1].labels[1] # chart[1].labels[2]
  /\ \E k \in 1..3 :
       ~RatEq(chart[1].datasets[k].data[1], chart[1].datasets[k].data[2])

\* C6: every value of every series of the radar dataset lies in 0..100.
C6_RadarValuesWithin0To100 ==
  \A p \in Priorities : \A i \in DOMAIN data[p] :
    /\ 0 <= data[p][i].num
    /\ data[p][i].num <= 100 * data[p][i].den

\* C7: the promise of makeRadarData is fulfilled, and a dataset handed to the
\* chart, only after all 3 x |sections| computations have completed; the
\* dataset is the one the inputs determine, each result in the slot of its
\* section and tier, whatever the order of completion; and once a computation
\* has failed the promise is rejected and no dataset is handed to the chart.
C7_RadarJoinsAllOrFails ==
  /\ radar # "idle" =>
       /\ radarPromise = "fulfilled" => AllFulfilled
       /\ SomeRejected => radarPromise = "rejected"
  /\ chart # <<>> => AllFulfilled
  /\ chart # <<>> => (radar = "drawn" /\ ValuesAligned(chart[1]))
  /\ SomeRejected => chart = <<>>
  /\ radar = "drawn" => chart # <<>>

\* all six computations of a catalog of two sections have completed, the last
\* of them for the first section, and the dataset was handed to the chart
C7_Witness ==
  /\ chart # <<>>
  /\ Len(radarSections) = 2
  /\ AllFulfilled
  /\ \A p \in Priorities : DOMAIN data[p] = {1, 2}

----------------------------------------------------------------------------
(* C8 *)

SumOverTiers(f) == f[recommended] + f[optional] + f[advanced]

\* C8: an item whose priority normalizes to none of the three tiers is in the
\* output of filterByPriority for no tier and counts in no per-tier
\* ProgressResult, gauge percentage or radar value, but counts in the result of
\* calculateProgress over the unfiltered catalog.
C8_UnrecognizedPriorityOnlyInTotals ==
  /\ summary = "done" =>
       /\ \A p \in Priorities : UnrecognizedPositions(filteredSections[p]) = {}
       /\ \A p \in Priorities :
            /\ tierProgress[p] =
                 ProgressResult(TierCompleted(checklists, p), TierOutOf(checklists, p))
            /\ percent[p] = roundPercent(TierCompleted(checklists, p), TierOutOf(checklists, p))
       /\ totalProgress.completed =
            SumOverTiers([p \in Priorities |-> tierProgress[p].completed])
              + Cardinality(UnrecognizedPositions(checklists)
                              \cap Marked(checklists, checkedItems))
       /\ totalProgress.outOf =
            SumOverTiers([p \in Priorities |-> tierProgress[p].outOf])
              + Cardinality(UnrecognizedPositions(checklists)
                              \ Marked(checklists, ignoredItems))
  /\ \A p \in Priorities : \A i \in DOMAIN data[p] :
       RatEq(data[p][i], ExpectedValue(radarSections[i], p))

\* a completed item of unrecognized priority is in the totals only, with the
\* gauges and the radar chart drawn
C8_Witness ==
  /\ summary = "done"
  /\ radar = "drawn"
  /\ UnrecognizedPositions(checklists) \cap Marked(checklists, checkedItems) # {}
  /\ totalProgress.completed >
       SumOverTiers([p \in Priorities |-> tierProgress[p].completed])
  /\ totalProgress.outOf = SumOverTiers([p \in Priorities |-> tierProgress[p].outOf])

----------------------------------------------------------------------------
(* C10 *)

====
